---- MODULE Spec2Model ----
(***************************************************************************)
(* Model of src/bst_avl.py: the unbalanced BST and the AVL tree, both      *)
(* ordered multisets over integers.  Nodes live in a heap (a sequence of   *)
(* records, the index is the object identity, None is 0), so that the      *)
(* in-place relinking done by the rotations is modelled as it is written.  *)
(***************************************************************************)
EXTENDS Integers, Sequences, FiniteSets, TLC

\* ---- bounds of the model ------------------------------------------------
MaxVal == 6
MaxInserts == 6
MaxQueried == 4
MaxComments == 4
MaxNodes == 6
MaxTopLevel == 2

Values == 1..MaxVal

None == 0

VARIABLES
  bst,        \* heap of BSTNode objects
  bstRoot,    \* BST.root
  avl,        \* heap of AVLNode objects
  avlRoot,    \* AVL.root
  inserted,   \* multiset of the values passed to insert so far: value -> occurrences
  rotLog,     \* rotations performed by the last AVL.insert, in order
  lastCall,   \* the last public call and its outcome
  comments,   \* heap of Comment objects (src/comment_system.py)
  cLast       \* the last call on a Comment and its outcome

treeVars == <<bst, bstRoot, avl, avlRoot, inserted, rotLog, lastCall>>

commentVars == <<comments, cLast>>

vars == <<bst, bstRoot, avl, avlRoot, inserted, rotLog, lastCall, comments, cLast>>

Max(a, b) == IF a >= b THEN a ELSE b

Abs(a) == IF a >= 0 THEN a ELSE -a

\* ---- BST ----------------------------------------------------------------
BSTNode(value) == [value |-> value, left |-> None, right |-> None, count |-> 1]

\* Variant of BST._insert that returns the result of the recursive call on
\* the right subtree instead of storing it in node.right.
RECURSIVE BST__insert_returnsChild(_, _, _)
BST__insert_returnsChild(h, node, value) ==
  IF node = None
    THEN [h |-> Append(h, BSTNode(value)), ret |-> Len(h) + 1]
    ELSE IF value < h[node].value
      THEN LET r == BST__insert_returnsChild(h, h[node].left, value)
           IN  [h |-> [r.h EXCEPT ![node].left = r.ret], ret |-> node]
      ELSE IF value > h[node].value
        THEN BST__insert_returnsChild(h, h[node].right, value)
        ELSE [h |-> [h EXCEPT ![node].count = @ + 1], ret |-> node]

\* Variant of BST._insert that sends an equal value to the right subtree.
RECURSIVE BST__insert_dupRight(_, _, _)
BST__insert_dupRight(h, node, value) ==
  IF node = None
    THEN [h |-> Append(h, BSTNode(value)), ret |-> Len(h) + 1]
    ELSE IF value < h[node].value
      THEN LET r == BST__insert_dupRight(h, h[node].left, value)
           IN  [h |-> [r.h EXCEPT ![node].left = r.ret], ret |-> node]
      ELSE LET r == BST__insert_dupRight(h, h[node].right, value)
           IN  [h |-> [r.h EXCEPT ![node].right = r.ret], ret |-> node]

\* Variant of BST._insert that descends to the right for a smaller value.
RECURSIVE BST__insert_wrongSide(_, _, _)
BST__insert_wrongSide(h, node, value) ==
  IF node = None
    THEN [h |-> Append(h, BSTNode(value)), ret |-> Len(h) + 1]
    ELSE IF value < h[node].value
      THEN LET r == BST__insert_wrongSide(h, h[node].right, value)
           IN  [h |-> [r.h EXCEPT ![node].right = r.ret], ret |-> node]
      ELSE IF value > h[node].value
        THEN LET r == BST__insert_wrongSide(h, h[node].right, value)
             IN  [h |-> [r.h EXCEPT ![node].right = r.ret], ret |-> node]
        ELSE [h |-> [h EXCEPT ![node].count = @ + 1], ret |-> node]

RECURSIVE BST__insert(_, _, _)
BST__insert(h, node, value) ==
  IF node = None
    THEN [h |-> Append(h, BSTNode(value)), ret |-> Len(h) + 1]
    ELSE IF value < h[node].value
      THEN LET r == BST__insert(h, h[node].left, value)
           IN  [h |-> [r.h EXCEPT ![node].left = r.ret], ret |-> node]
      ELSE IF value > h[node].value
        THEN LET r == BST__insert(h, h[node].right, value)
             IN  [h |-> [r.h EXCEPT ![node].right = r.ret], ret |-> node]
        ELSE [h |-> [h EXCEPT ![node].count = @ + 1], ret |-> node]

RECURSIVE WalkRight(_, _)
WalkRight(h, node) ==
  IF h[node].right # None THEN WalkRight(h, h[node].right) ELSE node

RECURSIVE WalkLeft(_, _)
WalkLeft(h, node) ==
  IF h[node].left # None THEN WalkLeft(h, h[node].left) ELSE node

BST_get_max(h, root) ==
  IF root = None
    THEN [raised |-> TRUE, result |-> 0]
    ELSE [raised |-> FALSE, result |-> h[WalkRight(h, root)].value]

\* Variant of BST.get_min that follows the right links.
BST_get_min_walksRight(h, root) ==
  IF root = None
    THEN [raised |-> TRUE, result |-> 0]
    ELSE [raised |-> FALSE, result |-> h[WalkRight(h, root)].value]

BST_get_min(h, root) ==
  IF root = None
    THEN [raised |-> TRUE, result |-> 0]
    ELSE [raised |-> FALSE, result |-> h[WalkLeft(h, root)].value]

RECURSIVE BST__sum(_, _)
BST__sum(h, node) ==
  IF node = None
    THEN 0
    ELSE h[node].value * h[node].count + BST__sum(h, h[node].left)
                                       + BST__sum(h, h[node].right)

BST_get_sum(h, root) == [raised |-> FALSE, result |-> BST__sum(h, root)]

\* ---- AVL ----------------------------------------------------------------
AVLNode(value) ==
  [value |-> value, left |-> None, right |-> None, height |-> 1, count |-> 1]

AVL__height(h, node) == IF node # None THEN h[node].height ELSE 0

\* Variant of AVL._get_balance that subtracts the left height from itself.
AVL__get_balance_sameSide(h, node) ==
  IF node # None
    THEN AVL__height(h, h[node].left) - AVL__height(h, h[node].left)
    ELSE 0

AVL__get_balance(h, node) ==
  IF node # None
    THEN AVL__height(h, h[node].left) - AVL__height(h, h[node].right)
    ELSE 0

\* A rotation returns the new heap, the new subtree root, and err = TRUE when
\* the pivot is None (attribute access on None raises in Python).
\* Variant of AVL._left_rotate that takes T2 from y.right instead of y.left.
AVL__left_rotate_wrongT2(h, z) ==
  LET y == h[z].right IN
  IF y = None
    THEN [h |-> h, ret |-> None, err |-> TRUE]
    ELSE LET T2 == h[y].right
             h1 == [h EXCEPT ![y].left = z]
             h2 == [h1 EXCEPT ![z].right = T2]
             h3 == [h2 EXCEPT ![z].height =
                      1 + Max(AVL__height(h2, h2[z].left), AVL__height(h2, h2[z].right))]
             h4 == [h3 EXCEPT ![y].height =
                      1 + Max(AVL__height(h3, h3[y].left), AVL__height(h3, h3[y].right))]
         IN  [h |-> h4, ret |-> y, err |-> FALSE]

\* Variant of AVL._left_rotate that recomputes y.height before z.height.
AVL__left_rotate_staleHeight(h, z) ==
  LET y == h[z].right IN
  IF y = None
    THEN [h |-> h, ret |-> None, err |-> TRUE]
    ELSE LET T2 == h[y].left
             h1 == [h EXCEPT ![y].left = z]
             h2 == [h1 EXCEPT ![z].right = T2]
             h3 == [h2 EXCEPT ![y].height =
                      1 + Max(AVL__height(h2, h2[y].left), AVL__height(h2, h2[y].right))]
             h4 == [h3 EXCEPT ![z].height =
                      1 + Max(AVL__height(h3, h3[z].left), AVL__height(h3, h3[z].right))]
         IN  [h |-> h4, ret |-> y, err |-> FALSE]

AVL__left_rotate(h, z) ==
  LET y == h[z].right IN
  IF y = None
    THEN [h |-> h, ret |-> None, err |-> TRUE]
    ELSE LET T2 == h[y].left
             h1 == [h EXCEPT ![y].left = z]
             h2 == [h1 EXCEPT ![z].right = T2]
             h3 == [h2 EXCEPT ![z].height =
                      1 + Max(AVL__height(h2, h2[z].left), AVL__height(h2, h2[z].right))]
             h4 == [h3 EXCEPT ![y].height =
                      1 + Max(AVL__height(h3, h3[y].left), AVL__height(h3, h3[y].right))]
         IN  [h |-> h4, ret |-> y, err |-> FALSE]

\* Variant of AVL._right_rotate that recomputes y.height before z.height.
AVL__right_rotate_staleHeight(h, z) ==
  LET y == h[z].left IN
  IF y = None
    THEN [h |-> h, ret |-> None, err |-> TRUE]
    ELSE LET T3 == h[y].right
             h1 == [h EXCEPT ![y].right = z]
             h2 == [h1 EXCEPT ![z].left = T3]
             h3 == [h2 EXCEPT ![y].height =
                      1 + Max(AVL__height(h2, h2[y].left), AVL__height(h2, h2[y].right))]
             h4 == [h3 EXCEPT ![z].height =
                      1 + Max(AVL__height(h3, h3[z].left), AVL__height(h3, h3[z].right))]
         IN  [h |-> h4, ret |-> y, err |-> FALSE]

\* Variant of AVL._right_rotate that clears z.left instead of storing T3.
AVL__right_rotate_dropsT3(h, z) ==
  LET y == h[z].left IN
  IF y = None
    THEN [h |-> h, ret |-> None, err |-> TRUE]
    ELSE LET h1 == [h EXCEPT ![y].right = z]
             h2 == [h1 EXCEPT ![z].left = None]
             h3 == [h2 EXCEPT ![z].height =
                      1 + Max(AVL__height(h2, h2[z].left), AVL__height(h2, h2[z].right))]
             h4 == [h3 EXCEPT ![y].height =
                      1 + Max(AVL__height(h3, h3[y].left), AVL__height(h3, h3[y].right))]
         IN  [h |-> h4, ret |-> y, err |-> FALSE]

AVL__right_rotate(h, z) ==
  LET y == h[z].left IN
  IF y = None
    THEN [h |-> h, ret |-> None, err |-> TRUE]
    ELSE LET T3 == h[y].right
             h1 == [h EXCEPT ![y].right = z]
             h2 == [h1 EXCEPT ![z].left = T3]
             h3 == [h2 EXCEPT ![z].height =
                      1 + Max(AVL__height(h2, h2[z].left), AVL__height(h2, h2[z].right))]
             h4 == [h3 EXCEPT ![y].height =
                      1 + Max(AVL__height(h3, h3[y].left), AVL__height(h3, h3[y].right))]
         IN  [h |-> h4, ret |-> y, err |-> FALSE]

Failed(h, log) == [h |-> h, ret |-> None, err |-> TRUE, rots |-> log]

\* One entry of the rotation log: which rotation ran at which node z, in
\* which of the four cases, with the heap before and after the call.
Rotated(log, kind, z, case, before, q) ==
  Append(log, [kind |-> kind, z |-> z, case |-> case,
               before |-> before, after |-> q.h, ret |-> q.ret])

\* Variant of lines 86-100 whose two single-rotation cases call the rotation
\* of the opposite direction.
AVL__rebalance_swappedRotations(h0, node, value, log) ==
  LET h == [h0 EXCEPT ![node].height =
              1 + Max(AVL__height(h0, h0[node].left), AVL__height(h0, h0[node].right))]
      balance == AVL__get_balance(h, node)
      l == h[node].left
      r == h[node].right
  IN
  IF balance > 1 /\ l = None THEN Failed(h, log)
  ELSE IF balance > 1 /\ value < h[l].value
    THEN LET q == AVL__left_rotate(h, node)
         IN  [h |-> q.h, ret |-> q.ret, err |-> q.err,
              rots |-> Rotated(log, "L", node, "LL", h, q)]
  ELSE IF balance < -1 /\ r = None THEN Failed(h, log)
  ELSE IF balance < -1 /\ value > h[r].value
    THEN LET q == AVL__right_rotate(h, node)
         IN  [h |-> q.h, ret |-> q.ret, err |-> q.err,
              rots |-> Rotated(log, "R", node, "RR", h, q)]
  ELSE IF balance > 1 /\ value > h[l].value
    THEN LET p == AVL__left_rotate(h, l)
             log1 == Rotated(log, "L", l, "LR", h, p)
         IN  IF p.err THEN Failed(p.h, log1)
             ELSE LET hp == [p.h EXCEPT ![node].left = p.ret]
                      q == AVL__right_rotate(hp, node)
                  IN  [h |-> q.h, ret |-> q.ret, err |-> q.err,
                       rots |-> Rotated(log1, "R", node, "LR", hp, q)]
  ELSE IF balance < -1 /\ value < h[r].value
    THEN LET p == AVL__right_rotate(h, r)
             log1 == Rotated(log, "R", r, "RL", h, p)
         IN  IF p.err THEN Failed(p.h, log1)
             ELSE LET hp == [p.h EXCEPT ![node].right = p.ret]
                      q == AVL__left_rotate(hp, node)
                  IN  [h |-> q.h, ret |-> q.ret, err |-> q.err,
                       rots |-> Rotated(log1, "L", node, "RL", hp, q)]
  ELSE [h |-> h, ret |-> node, err |-> FALSE, rots |-> log]

\* Variant of lines 86-100 that rotates as soon as the balance reaches 1 or -1.
AVL__rebalance_eagerRotation(h0, node, value, log) ==
  LET h == [h0 EXCEPT ![node].height =
              1 + Max(AVL__height(h0, h0[node].left), AVL__height(h0, h0[node].right))]
      balance == AVL__get_balance(h, node)
      l == h[node].left
      r == h[node].right
  IN
  IF balance >= 1 /\ l = None THEN Failed(h, log)
  ELSE IF balance >= 1 /\ value < h[l].value
    THEN LET q == AVL__right_rotate(h, node)
         IN  [h |-> q.h, ret |-> q.ret, err |-> q.err,
              rots |-> Rotated(log, "R", node, "LL", h, q)]
  ELSE IF balance <= -1 /\ r = None THEN Failed(h, log)
  ELSE IF balance <= -1 /\ value > h[r].value
    THEN LET q == AVL__left_rotate(h, node)
         IN  [h |-> q.h, ret |-> q.ret, err |-> q.err,
              rots |-> Rotated(log, "L", node, "RR", h, q)]
  ELSE IF balance >= 1 /\ value > h[l].value
    THEN LET p == AVL__left_rotate(h, l)
             log1 == Rotated(log, "L", l, "LR", h, p)
         IN  IF p.err THEN Failed(p.h, log1)
             ELSE LET hp == [p.h EXCEPT ![node].left = p.ret]
                      q == AVL__right_rotate(hp, node)
                  IN  [h |-> q.h, ret |-> q.ret, err |-> q.err,
                       rots |-> Rotated(log1, "R", node, "LR", hp, q)]
  ELSE IF balance <= -1 /\ value < h[r].value
    THEN LET p == AVL__right_rotate(h, r)
             log1 == Rotated(log, "R", r, "RL", h, p)
         IN  IF p.err THEN Failed(p.h, log1)
             ELSE LET hp == [p.h EXCEPT ![node].right = p.ret]
                      q == AVL__left_rotate(hp, node)
                  IN  [h |-> q.h, ret |-> q.ret, err |-> q.err,
                       rots |-> Rotated(log1, "L", node, "RL", hp, q)]
  ELSE [h |-> h, ret |-> node, err |-> FALSE, rots |-> log]

\* Variant of lines 86-100 without the two double-rotation cases.
AVL__rebalance_singleOnly(h0, node, value, log) ==
  LET h == [h0 EXCEPT ![node].height =
              1 + Max(AVL__height(h0, h0[node].left), AVL__height(h0, h0[node].right))]
      balance == AVL__get_balance(h, node)
      l == h[node].left
      r == h[node].right
  IN
  IF balance > 1 /\ l = None THEN Failed(h, log)
  ELSE IF balance > 1 /\ value < h[l].value
    THEN LET q == AVL__right_rotate(h, node)
         IN  [h |-> q.h, ret |-> q.ret, err |-> q.err,
              rots |-> Rotated(log, "R", node, "LL", h, q)]
  ELSE IF balance < -1 /\ r = None THEN Failed(h, log)
  ELSE IF balance < -1 /\ value > h[r].value
    THEN LET q == AVL__left_rotate(h, node)
         IN  [h |-> q.h, ret |-> q.ret, err |-> q.err,
              rots |-> Rotated(log, "L", node, "RR", h, q)]
  ELSE [h |-> h, ret |-> node, err |-> FALSE, rots |-> log]

\* Variant of lines 86-100 that recomputes the height and never rotates.
AVL__rebalance_noRotation(h0, node, value, log) ==
  [h |-> [h0 EXCEPT ![node].height =
            1 + Max(AVL__height(h0, h0[node].left), AVL__height(h0, h0[node].right))],
   ret |-> node, err |-> FALSE, rots |-> log]

\* Lines 86-100 of AVL._insert: height recomputation and the four rotation
\* cases, executed at `node` after the recursive call has returned.
\* log is the list of rotations done so far by this insert.
AVL__rebalance(h0, node, value, log) ==
  LET h == [h0 EXCEPT ![node].height =
              1 + Max(AVL__height(h0, h0[node].left), AVL__height(h0, h0[node].right))]
      balance == AVL__get_balance(h, node)
      l == h[node].left
      r == h[node].right
  IN
  IF balance > 1 /\ l = None THEN Failed(h, log)
  ELSE IF balance > 1 /\ value < h[l].value
    THEN LET q == AVL__right_rotate(h, node)
         IN  [h |-> q.h, ret |-> q.ret, err |-> q.err,
              rots |-> Rotated(log, "R", node, "LL", h, q)]
  ELSE IF balance < -1 /\ r = None THEN Failed(h, log)
  ELSE IF balance < -1 /\ value > h[r].value
    THEN LET q == AVL__left_rotate(h, node)
         IN  [h |-> q.h, ret |-> q.ret, err |-> q.err,
              rots |-> Rotated(log, "L", node, "RR", h, q)]
  ELSE IF balance > 1 /\ value > h[l].value
    THEN LET p == AVL__left_rotate(h, l)
             log1 == Rotated(log, "L", l, "LR", h, p)
         IN  IF p.err THEN Failed(p.h, log1)
             ELSE LET hp == [p.h EXCEPT ![node].left = p.ret]
                      q == AVL__right_rotate(hp, node)
                  IN  [h |-> q.h, ret |-> q.ret, err |-> q.err,
                       rots |-> Rotated(log1, "R", node, "LR", hp, q)]
  ELSE IF balance < -1 /\ value < h[r].value
    THEN LET p == AVL__right_rotate(h, r)
             log1 == Rotated(log, "R", r, "RL", h, p)
         IN  IF p.err THEN Failed(p.h, log1)
             ELSE LET hp == [p.h EXCEPT ![node].right = p.ret]
                      q == AVL__left_rotate(hp, node)
                  IN  [h |-> q.h, ret |-> q.ret, err |-> q.err,
                       rots |-> Rotated(log1, "L", node, "RL", hp, q)]
  ELSE [h |-> h, ret |-> node, err |-> FALSE, rots |-> log]

\* The outcome q of lines 86-100 at an ancestor `node`, with a record of what
\* the code saw there: h is the heap when _insert was entered at node, hb the
\* heap when line 86 is reached, r the outcome of the recursive call.
Visited(q, r, h, hb, node, value) ==
  [h |-> q.h, ret |-> q.ret, err |-> q.err, rots |-> q.rots,
   visits |-> Append(r.visits,
     [node |-> node, value |-> value,
      balance |-> AVL__get_balance(hb, node),
      left |-> hb[node].left, right |-> hb[node].right,
      leftValue |-> IF hb[node].left # None THEN hb[hb[node].left].value ELSE value,
      rightValue |-> IF hb[node].right # None THEN hb[hb[node].right].value ELSE value,
      rotations |-> Len(q.rots) - Len(r.rots),
      heightBefore |-> h[node].height,
      heightAfter |-> IF q.err THEN 0 ELSE q.h[q.ret].height,
      ret |-> q.ret])]

\* Variant of AVL._insert whose duplicate branch returns without counting.
RECURSIVE AVL__insert_noCount(_, _, _)
AVL__insert_noCount(h, node, value) ==
  IF node = None
    THEN [h |-> Append(h, AVLNode(value)), ret |-> Len(h) + 1,
          err |-> FALSE, rots |-> <<>>, visits |-> <<>>]
    ELSE IF value < h[node].value
      THEN LET r == AVL__insert_noCount(h, h[node].left, value)
               hb == [r.h EXCEPT ![node].left = r.ret]
           IN  IF r.err THEN r
               ELSE Visited(AVL__rebalance(hb, node, value, r.rots), r, h, hb, node, value)
      ELSE IF value > h[node].value
        THEN LET r == AVL__insert_noCount(h, h[node].right, value)
                 hb == [r.h EXCEPT ![node].right = r.ret]
             IN  IF r.err THEN r
                 ELSE Visited(AVL__rebalance(hb, node, value, r.rots), r, h, hb, node, value)
        ELSE [h |-> h, ret |-> node,
              err |-> FALSE, rots |-> <<>>, visits |-> <<>>]

RECURSIVE AVL__insert(_, _, _)
AVL__insert(h, node, value) ==
  IF node = None
    THEN [h |-> Append(h, AVLNode(value)), ret |-> Len(h) + 1,
          err |-> FALSE, rots |-> <<>>, visits |-> <<>>]
    ELSE IF value < h[node].value
      THEN LET r == AVL__insert(h, h[node].left, value)
               hb == [r.h EXCEPT ![node].left = r.ret]
           IN  IF r.err THEN r
               ELSE Visited(AVL__rebalance(hb, node, value, r.rots), r, h, hb, node, value)
      ELSE IF value > h[node].value
        THEN LET r == AVL__insert(h, h[node].right, value)
                 hb == [r.h EXCEPT ![node].right = r.ret]
             IN  IF r.err THEN r
                 ELSE Visited(AVL__rebalance(hb, node, value, r.rots), r, h, hb, node, value)
        ELSE [h |-> [h EXCEPT ![node].count = @ + 1], ret |-> node,
              err |-> FALSE, rots |-> <<>>, visits |-> <<>>]

AVL_get_max(h, root) ==
  IF root = None
    THEN [raised |-> TRUE, result |-> 0]
    ELSE [raised |-> FALSE, result |-> h[WalkRight(h, root)].value]

\* Variant of AVL.get_min that returns 0 for an empty tree instead of raising.
AVL_get_min_noRaise(h, root) ==
  IF root = None
    THEN [raised |-> FALSE, result |-> 0]
    ELSE [raised |-> FALSE, result |-> h[WalkLeft(h, root)].value]

AVL_get_min(h, root) ==
  IF root = None
    THEN [raised |-> TRUE, result |-> 0]
    ELSE [raised |-> FALSE, result |-> h[WalkLeft(h, root)].value]

\* Variant of AVL.get_sum._sum that ignores the multiplicity.
RECURSIVE AVL__sum_noCount(_, _)
AVL__sum_noCount(h, node) ==
  IF node = None
    THEN 0
    ELSE h[node].value + AVL__sum_noCount(h, h[node].left)
                       + AVL__sum_noCount(h, h[node].right)

RECURSIVE AVL__sum(_, _)
AVL__sum(h, node) ==
  IF node = None
    THEN 0
    ELSE h[node].value * h[node].count + AVL__sum(h, h[node].left)
                                       + AVL__sum(h, h[node].right)

AVL_get_sum(h, root) == [raised |-> FALSE, result |-> AVL__sum(h, root)]

\* Variant of check_node that compares the heights without abs().
RECURSIVE check_node_noAbs(_, _)
check_node_noAbs(h, node) ==
  IF node = None
    THEN [ok |-> TRUE, height |-> 0]
    ELSE LET l == check_node_noAbs(h, h[node].left)
             r == check_node_noAbs(h, h[node].right)
             balanced == l.height - r.height <= 1
             height == 1 + Max(l.height, r.height)
         IN  [ok |-> l.ok /\ r.ok /\ balanced, height |-> height]

RECURSIVE check_node(_, _)
check_node(h, node) ==
  IF node = None
    THEN [ok |-> TRUE, height |-> 0]
    ELSE LET l == check_node(h, h[node].left)
             r == check_node(h, h[node].right)
             balanced == Abs(l.height - r.height) <= 1
             height == 1 + Max(l.height, r.height)
         IN  [ok |-> l.ok /\ r.ok /\ balanced, height |-> height]

AVL_verify_avl_property(h, root) ==
  [raised |-> FALSE, result |-> check_node(h, root).ok]

\* ---- Comment --------------------------------------------------------------
Texts == {"text"}

Authors == {"ann"}

DeletedText == "deleted"

Comment(text, author) ==
  [text |-> text, author |-> author, replies |-> <<>>, is_deleted |-> FALSE]

\* self.replies.append(reply), for a reply that is a Comment.
add_reply(h, c, reply) == [h EXCEPT ![c].replies = Append(@, reply)]

\* Variant of remove_reply that also empties the replies list.
remove_reply_clearsReplies(h, c) ==
  [h EXCEPT ![c].text = DeletedText, ![c].author = "", ![c].replies = <<>>,
            ![c].is_deleted = TRUE]

remove_reply(h, c) ==
  [h EXCEPT ![c].text = DeletedText, ![c].author = "", ![c].is_deleted = TRUE]

\* Variant of get_reply_count that counts the direct replies only.
get_reply_count_directOnly(h, c) == Len(h[c].replies)

RECURSIVE get_reply_count(_, _)
get_reply_count(h, c) ==
  LET RECURSIVE Loop(_, _)
      \* the for loop of lines 72-73, from index i on, with running total
      Loop(i, total) ==
        IF i > Len(h[c].replies)
          THEN total
          ELSE Loop(i + 1, total + get_reply_count(h, h[c].replies[i]))
  IN  Loop(1, Len(h[c].replies))

\* ---- the program as a state machine --------------------------------------
NoCall == [op |-> "none", tree |-> "none", raised |-> FALSE, result |-> 0]

NoCommentCall == [op |-> "none", target |-> 0, arg |-> 0, raised |-> FALSE, result |-> 0]

Init ==
  /\ bst = <<>>
  /\ bstRoot = None
  /\ avl = <<>>
  /\ avlRoot = None
  /\ inserted = [v \in Values |-> 0]
  /\ rotLog = <<>>
  /\ lastCall = NoCall
  /\ comments = <<>>
  /\ cLast = NoCommentCall

\* Number of insert calls made so far, and the arithmetic sum of their arguments.
RECURSIVE OccurrencesUpTo(_)
OccurrencesUpTo(v) == IF v = 0 THEN 0 ELSE inserted[v] + OccurrencesUpTo(v - 1)

NumInserts == OccurrencesUpTo(MaxVal)

RECURSIVE RawSumUpTo(_)
RawSumUpTo(v) == IF v = 0 THEN 0 ELSE v * inserted[v] + RawSumUpTo(v - 1)

RawSum == RawSumUpTo(MaxVal)

InsertedValues == {v \in Values : inserted[v] > 0}

InsertFailed == lastCall.op = "insert" /\ lastCall.raised

\* One iteration of the loop `for v in values: bst.insert(v); avl.insert(v)`.
\* self.root is assigned only when _insert returns normally.
Insert(v) ==
  /\ NumInserts < MaxInserts
  /\ ~InsertFailed
  /\ LET b == BST__insert(bst, bstRoot, v)
         a == AVL__insert(avl, avlRoot, v)
     IN  /\ bst' = b.h
         /\ bstRoot' = b.ret
         /\ avl' = a.h
         /\ avlRoot' = IF a.err THEN avlRoot ELSE a.ret
         /\ rotLog' = a.rots
         /\ lastCall' = [op |-> "insert", tree |-> "both", raised |-> a.err, result |-> 0]
  /\ inserted' = [inserted EXCEPT ![v] = @ + 1]
  /\ UNCHANGED commentVars

\* A query call; queries are issued on trees built by at most MaxQueried
\* inserts, and more inserts may follow.
Query(op, tree, out) ==
  /\ ~InsertFailed
  /\ NumInserts <= MaxQueried
  /\ lastCall' = [op |-> op, tree |-> tree, raised |-> out.raised,
                  result |-> out.result]
  /\ UNCHANGED <<bst, bstRoot, avl, avlRoot, inserted, rotLog>>
  /\ UNCHANGED commentVars

BstGetMax == Query("get_max", "bst", BST_get_max(bst, bstRoot))
BstGetMin == Query("get_min", "bst", BST_get_min(bst, bstRoot))
BstGetSum == Query("get_sum", "bst", BST_get_sum(bst, bstRoot))
\* Variant of AVL.get_max that walks with self.root instead of a local.
AvlGetMax_movesRoot ==
  /\ ~InsertFailed
  /\ NumInserts <= MaxQueried
  /\ lastCall' = [op |-> "get_max", tree |-> "avl",
                  raised |-> AVL_get_max(avl, avlRoot).raised,
                  result |-> AVL_get_max(avl, avlRoot).result]
  /\ avlRoot' = IF avlRoot = None THEN None ELSE WalkRight(avl, avlRoot)
  /\ UNCHANGED <<bst, bstRoot, avl, inserted, rotLog>>
  /\ UNCHANGED commentVars

AvlGetMax == Query("get_max", "avl", AVL_get_max(avl, avlRoot))
AvlGetMin == Query("get_min", "avl", AVL_get_min(avl, avlRoot))
AvlGetSum == Query("get_sum", "avl", AVL_get_sum(avl, avlRoot))
AvlVerify == Query("verify_avl_property", "avl", AVL_verify_avl_property(avl, avlRoot))

Next ==
  \/ \E v \in Values : Insert(v)
  \/ BstGetMax
  \/ BstGetMin
  \/ BstGetSum
  \/ AvlGetMax
  \/ AvlGetMin
  \/ AvlGetSum
  \/ AvlVerify

Spec == Init /\ [][Next]_vars

\* ---- verify_avl_property on arbitrary trees of AVLNodes -------------------
\* All binary trees of n AVLNodes numbered lo, lo+1, ... in preorder, as
\* functions from the node to its left and right link.
RECURSIVE ShapesAt(_, _)
ShapesAt(lo, n) ==
  IF n = 0
    THEN {[i \in {} |-> None]}
    ELSE UNION {
           {[i \in lo..(lo + n - 1) |->
               IF i = lo
                 THEN [left |-> IF k > 0 THEN lo + 1 ELSE None,
                       right |-> IF n - 1 - k > 0 THEN lo + 1 + k ELSE None]
                 ELSE IF i <= lo + k THEN L[i] ELSE R[i]]
             : L \in ShapesAt(lo + 1, k), R \in ShapesAt(lo + 1 + k, n - 1 - k)}
           : k \in 0..(n - 1)}

\* How the stored height fields of such a tree are filled in: with the true
\* heights, with the value 1 of a fresh node everywhere, or one too large.
HeightModes == {"true", "fresh", "stale"}

RECURSIVE ShapeHeight(_, _)
ShapeHeight(shape, node) ==
  IF node = None
    THEN 0
    ELSE 1 + Max(ShapeHeight(shape, shape[node].left), ShapeHeight(shape, shape[node].right))

TreeOfAVLNodes(n, shape, mode) ==
  [i \in 1..n |->
     [value |-> i, left |-> shape[i].left, right |-> shape[i].right, count |-> 1,
      height |-> IF mode = "true" THEN ShapeHeight(shape, i)
                 ELSE IF mode = "fresh" THEN 1
                 ELSE ShapeHeight(shape, i) + 1]]

VerifyInit ==
  /\ \E n \in 0..MaxNodes :
       \E shape \in ShapesAt(1, n), mode \in HeightModes :
         /\ avl = TreeOfAVLNodes(n, shape, mode)
         /\ avlRoot = IF n = 0 THEN None ELSE 1
  /\ bst = <<>>
  /\ bstRoot = None
  /\ inserted = [v \in Values |-> 0]
  /\ rotLog = <<>>
  /\ lastCall = NoCall
  /\ comments = <<>>
  /\ cLast = NoCommentCall

VerifyNext == AvlVerify

VerifySpec == VerifyInit /\ [][VerifyNext]_vars

\* ---- the comment hierarchy as a state machine ----------------------------
CommentIds == 1..Len(comments)

RepliesOf(h, c) == {h[c].replies[i] : i \in DOMAIN h[c].replies}

RECURSIVE CommentClosure(_, _, _)
CommentClosure(h, S, k) ==
  IF k = 0 THEN S
  ELSE CommentClosure(h, S \cup UNION {RepliesOf(h, c) : c \in S}, k - 1)

\* The comment c with all its direct and nested replies.
Thread(h, c) == CommentClosure(h, {c}, Len(h))

HasParent(h, r) == \E p \in 1..Len(h) : r \in RepliesOf(h, p)

\* Comment(text, author): a new comment, not yet a reply of anything.
NewComment(text, author) ==
  /\ Len(comments) < MaxComments
  /\ Cardinality({c \in CommentIds : ~HasParent(comments, c)}) < MaxTopLevel
  /\ comments' = Append(comments, Comment(text, author))
  /\ cLast' = [op |-> "Comment", target |-> Len(comments) + 1, arg |-> 0,
               raised |-> FALSE, result |-> 0]
  /\ UNCHANGED treeVars

\* c.add_reply(reply) with a Comment that is not yet part of a hierarchy and
\* is not the top of c's own thread, as in every call of the test and the
\* demo: the replies form a hierarchy.
AddReply(c, reply) ==
  /\ ~HasParent(comments, reply)
  /\ c \notin Thread(comments, reply)
  /\ comments' = add_reply(comments, c, reply)
  /\ cLast' = [op |-> "add_reply", target |-> c, arg |-> reply,
               raised |-> FALSE, result |-> 0]
  /\ UNCHANGED treeVars

\* c.add_reply(x) with x not a Comment: TypeError, nothing is appended.
AddReplyNotComment(c) ==
  /\ cLast' = [op |-> "add_reply", target |-> c, arg |-> 0,
               raised |-> TRUE, result |-> 0]
  /\ UNCHANGED comments
  /\ UNCHANGED treeVars

RemoveReply(c) ==
  /\ comments' = remove_reply(comments, c)
  /\ cLast' = [op |-> "remove_reply", target |-> c, arg |-> 0,
               raised |-> FALSE, result |-> 0]
  /\ UNCHANGED treeVars

GetReplyCount(c) ==
  /\ cLast' = [op |-> "get_reply_count", target |-> c, arg |-> 0,
               raised |-> FALSE, result |-> get_reply_count(comments, c)]
  /\ UNCHANGED comments
  /\ UNCHANGED treeVars

CommentNext ==
  \/ \E text \in Texts, author \in Authors : NewComment(text, author)
  \/ \E c \in CommentIds, reply \in CommentIds : AddReply(c, reply)
  \/ \E c \in CommentIds : AddReplyNotComment(c)
  \/ \E c \in CommentIds : RemoveReply(c)
  \/ \E c \in CommentIds : GetReplyCount(c)

CommentSpec == Init /\ [][CommentNext]_vars

\* ---- structure of a heap, computed independently of the program --------
NodesOf(h) == 1..Len(h)

ChildrenOf(h, S) == ({h[n].left : n \in S} \cup {h[n].right : n \in S}) \ {None}

RECURSIVE Closure(_, _, _)
Closure(h, S, k) ==
  IF k = 0 \/ ChildrenOf(h, S) \subseteq S
    THEN S
    ELSE Closure(h, S \cup ChildrenOf(h, S), k - 1)

\* The nodes reachable from node through left/right links (node included).
Subtree(h, node) == IF node = None THEN {} ELSE Closure(h, {node}, Len(h))

Descendants(h, node) == Subtree(h, h[node].left) \cup Subtree(h, h[node].right)

\* Height of the subtree at node counted in nodes, cut off at depth k.
RECURSIVE HeightWithin(_, _, _)
HeightWithin(h, node, k) ==
  IF node = None \/ k = 0
    THEN 0
    ELSE 1 + Max(HeightWithin(h, h[node].left, k - 1), HeightWithin(h, h[node].right, k - 1))

TrueHeight(h, node) == HeightWithin(h, node, Len(h))

OrderedAt(h, n) ==
  /\ \A m \in Subtree(h, h[n].left) : h[m].value < h[n].value
  /\ \A m \in Subtree(h, h[n].right) : h[m].value > h[n].value

Ordered(h) == \A n \in NodesOf(h) : OrderedAt(h, n)

BalancedAt(h, n) == Abs(TrueHeight(h, h[n].left) - TrueHeight(h, h[n].right)) <= 1

LastInsertOk == lastCall.op = "insert" /\ ~lastCall.raised

\* ---- C1 -----------------------------------------------------------------
\* C1: after every insert into the AVL tree, verify_avl_property() returns
\* true, and at every node the independently computed heights of the left and
\* right subtrees differ by at most 1.
C1_AvlBalancedAfterEveryInsert ==
  NumInserts > 0 =>
    /\ AVL_verify_avl_property(avl, avlRoot).result = TRUE
    /\ \A n \in Subtree(avl, avlRoot) : BalancedAt(avl, n)

\* Strictly increasing input 1,2,3,4,5,6: the BST is a right-only chain, the
\* AVL tree was rotated by the last insert and the verifier accepts it.
C1_Witness ==
  /\ Len(bst) >= 6
  /\ \A i \in 1..6 : bst[i].value = i /\ bst[i].left = None
  /\ Len(avl) >= 6
  /\ LastInsertOk
  /\ Len(rotLog) > 0
  /\ AVL_verify_avl_property(avl, avlRoot).result = TRUE

\* ---- C2 -----------------------------------------------------------------
\* C2: in the BST and in the AVL tree every node's left subtree holds only
\* smaller values and its right subtree only greater ones; in the AVL heap
\* this also holds right after each single rotation of the last insert.
C2_OrderingInvariant ==
  /\ Ordered(bst)
  /\ Ordered(avl)
  /\ \A i \in DOMAIN rotLog : Ordered(rotLog[i].before) /\ Ordered(rotLog[i].after)

\* A double rotation has just run on a tree of at least five nodes.
C2_Witness ==
  /\ LastInsertOk
  /\ Len(rotLog) = 2
  /\ Len(avl) >= 5
  /\ Len(bst) >= 5
  /\ Ordered(avl)

\* ---- C3 -----------------------------------------------------------------
\* C3: get_sum() of the BST and of the AVL tree equals the arithmetic sum of
\* all values passed to insert, duplicates counted (0 before any insert), and
\* that is the sum of value * count over the nodes.
SumOfNodes(h) ==
  LET RECURSIVE Upto(_)
      Upto(k) == IF k = 0 THEN 0 ELSE h[k].value * h[k].count + Upto(k - 1)
  IN  Upto(Len(h))

C3_SumCorrect ==
  /\ BST_get_sum(bst, bstRoot).result = RawSum
  /\ AVL_get_sum(avl, avlRoot).result = RawSum
  /\ ~BST_get_sum(bst, bstRoot).raised
  /\ ~AVL_get_sum(avl, avlRoot).raised
  /\ RawSum = SumOfNodes(bst)
  /\ RawSum = SumOfNodes(avl)
  /\ lastCall.op = "get_sum" => lastCall.result = RawSum

\* get_sum was called on the AVL tree after inserts with a duplicate among at
\* least three distinct values.
C3_Witness ==
  /\ lastCall.op = "get_sum"
  /\ lastCall.tree = "avl"
  /\ lastCall.result = RawSum
  /\ \E v \in Values : inserted[v] >= 2
  /\ Cardinality(InsertedValues) >= 3

\* ---- C4 -----------------------------------------------------------------
\* C4: on a non-empty tree get_min() returns the minimum and get_max() the
\* maximum of the set of inserted values, for the BST and the AVL tree.
MinOf(S) == CHOOSE x \in S : \A y \in S : x <= y

MaxOf(S) == CHOOSE x \in S : \A y \in S : x >= y

C4_MinMaxCorrect ==
  NumInserts > 0 =>
    /\ BST_get_min(bst, bstRoot) = [raised |-> FALSE, result |-> MinOf(InsertedValues)]
    /\ BST_get_max(bst, bstRoot) = [raised |-> FALSE, result |-> MaxOf(InsertedValues)]
    /\ AVL_get_min(avl, avlRoot) = [raised |-> FALSE, result |-> MinOf(InsertedValues)]
    /\ AVL_get_max(avl, avlRoot) = [raised |-> FALSE, result |-> MaxOf(InsertedValues)]
    /\ lastCall.op = "get_min" => lastCall.result = MinOf(InsertedValues)
    /\ lastCall.op = "get_max" => lastCall.result = MaxOf(InsertedValues)

\* get_min was called on a BST whose minimum is neither the root nor the
\* root's left child.
C4_Witness ==
  /\ lastCall.op = "get_min"
  /\ lastCall.tree = "bst"
  /\ ~lastCall.raised
  /\ bstRoot # None
  /\ bst[bstRoot].left # None
  /\ bst[bst[bstRoot].left].left # None
  /\ lastCall.result = MinOf(InsertedValues)

\* ---- C5 -----------------------------------------------------------------
\* C5: each tree holds exactly one node per distinct inserted value, the
\* node's count is the number of times the value was inserted, and inserting
\* a value that is already present does not change the number of nodes.
OneNodePerValue(h, root) ==
  /\ Len(h) = Cardinality(InsertedValues)
  /\ Cardinality(Subtree(h, root)) = Cardinality(InsertedValues)
  /\ \A v \in InsertedValues :
        Cardinality({n \in Subtree(h, root) : h[n].value = v}) = 1
  /\ \A n \in NodesOf(h) : h[n].count = inserted[h[n].value]

DuplicateInsertKeepsNodes ==
  \A v \in Values :
    (inserted[v] > 0 /\ inserted'[v] = inserted[v] + 1) =>
      /\ Len(bst') = Len(bst)
      /\ Len(avl') = Len(avl)
      /\ Cardinality(Subtree(bst', bstRoot')) = Cardinality(Subtree(bst, bstRoot))
      /\ Cardinality(Subtree(avl', avlRoot')) = Cardinality(Subtree(avl, avlRoot))

C5_Multiplicity ==
  /\ [](OneNodePerValue(bst, bstRoot) /\ OneNodePerValue(avl, avlRoot))
  /\ [][DuplicateInsertKeepsNodes]_vars

\* A value was inserted three times into trees of at least three nodes and
\* sits in one non-root node with count 3 in each tree.
C5_Witness ==
  /\ LastInsertOk
  /\ \E v \in Values :
        /\ inserted[v] = 3
        /\ \E n \in NodesOf(bst) : n # bstRoot /\ bst[n].value = v /\ bst[n].count = 3
        /\ \E n \in NodesOf(avl) : n # avlRoot /\ avl[n].value = v /\ avl[n].count = 3
  /\ Len(bst) >= 3

\* ---- C6 -----------------------------------------------------------------
\* C6: get_min() and get_max() raise exactly when the tree has no node, that
\* is when no insert was ever made, and a raising call leaves the tree empty
\* and unchanged.
RaisesIffEmpty(out, h, root) ==
  /\ out.raised <=> (Len(h) = 0 /\ root = None)
  /\ out.raised <=> NumInserts = 0

RaisingCallChangesNothing ==
  (lastCall'.op \in {"get_min", "get_max"} /\ lastCall'.raised) =>
    /\ UNCHANGED <<bst, bstRoot, avl, avlRoot, inserted>>
    /\ bst' = <<>> /\ bstRoot' = None
    /\ avl' = <<>> /\ avlRoot' = None

C6_EmptyTreeError ==
  /\ [](/\ RaisesIffEmpty(BST_get_min(bst, bstRoot), bst, bstRoot)
        /\ RaisesIffEmpty(BST_get_max(bst, bstRoot), bst, bstRoot)
        /\ RaisesIffEmpty(AVL_get_min(avl, avlRoot), avl, avlRoot)
        /\ RaisesIffEmpty(AVL_get_max(avl, avlRoot), avl, avlRoot)
        /\ (lastCall.op \in {"get_min", "get_max"} =>
              (lastCall.raised <=> NumInserts = 0)))
  /\ [][RaisingCallChangesNothing]_vars

\* get_min was called on the freshly constructed AVL tree and raised.
C6_Witness ==
  /\ lastCall.op = "get_min"
  /\ lastCall.tree = "avl"
  /\ lastCall.raised
  /\ avlRoot = None

\* ---- C7 -----------------------------------------------------------------
\* C7: after every AVL insert each node's stored height is 1 + the larger of
\* its children's stored heights (0 for an absent child) and equals the true
\* height of the subtree rooted at the node.
C7_HeightInvariant ==
  \A n \in NodesOf(avl) :
    /\ avl[n].height = 1 + Max(AVL__height(avl, avl[n].left), AVL__height(avl, avl[n].right))
    /\ avl[n].height = TrueHeight(avl, n)

\* The last insert ran a left rotation whose pivot had a left subtree (T2),
\* so that the rotated node's height depends on a moved subtree.
C7_Witness ==
  /\ LastInsertOk
  /\ \E i \in DOMAIN rotLog :
        /\ rotLog[i].kind = "L"
        /\ rotLog[i].before[rotLog[i].before[rotLog[i].z].right].left # None
  /\ \A n \in NodesOf(avl) : avl[n].height = TrueHeight(avl, n)

\* ---- C8 -----------------------------------------------------------------
\* C8: fed the same insertions, the BST and the AVL tree have the same
\* in-order sequence of (value, count) pairs and give the same outcome for
\* get_min, get_max and get_sum (the same result, or both raise).
RECURSIVE InOrder(_, _)
InOrder(h, node) ==
  IF node = None
    THEN <<>>
    ELSE InOrder(h, h[node].left) \o <<<<h[node].value, h[node].count>>>>
                                  \o InOrder(h, h[node].right)

C8_BstAvlInterchangeable ==
  /\ InOrder(bst, bstRoot) = InOrder(avl, avlRoot)
  /\ BST_get_min(bst, bstRoot) = AVL_get_min(avl, avlRoot)
  /\ BST_get_max(bst, bstRoot) = AVL_get_max(avl, avlRoot)
  /\ BST_get_sum(bst, bstRoot) = AVL_get_sum(avl, avlRoot)

\* The two trees have different roots (the AVL tree was rotated), hold at
\* least five nodes and one duplicate, and list the same pairs in order.
C8_Witness ==
  /\ LastInsertOk
  /\ Len(bst) >= 5
  /\ bst[bstRoot].value # avl[avlRoot].value
  /\ \E v \in Values : inserted[v] >= 2
  /\ InOrder(bst, bstRoot) = InOrder(avl, avlRoot)

\* ---- C9 -----------------------------------------------------------------
\* C9: insert never fails: no insert call raised, every rotation of the last
\* insert was applied to a node whose pivot child exists, and from every
\* reachable tree an insert of any value (also below and above the values
\* used so far) completes without dereferencing None.
PivotPresent(e) ==
  /\ e.kind = "L" => e.before[e.z].right # None
  /\ e.kind = "R" => e.before[e.z].left # None
  /\ e.ret # None

C9_InsertNeverFails ==
  /\ lastCall.op = "insert" => ~lastCall.raised
  /\ \A i \in DOMAIN rotLog : PivotPresent(rotLog[i])
  /\ \A v \in 0..(MaxVal + 1) :
        LET a == AVL__insert(avl, avlRoot, v)
        IN  ~a.err /\ a.ret # None /\ \A i \in DOMAIN a.rots : PivotPresent(a.rots[i])

\* The last insert completed after a double rotation at a node below the root.
C9_Witness ==
  /\ LastInsertOk
  /\ Len(rotLog) = 2
  /\ rotLog[2].ret # avlRoot

\* ---- C10 ----------------------------------------------------------------
\* C10: the nodes of each tree form a proper rooted tree: no node is its own
\* descendant, the root has no parent and every other node exactly one, every
\* node ever created is reachable from the root, and no step changes the
\* value of an existing node or removes a node.
ParentLinks(h, n) ==
  {ps \in NodesOf(h) \X {"left", "right"} : h[ps[1]][ps[2]] = n}

ProperTree(h, root) ==
  /\ root = None <=> Len(h) = 0
  /\ root \in NodesOf(h) \cup {None}
  /\ \A n \in NodesOf(h) :
        /\ h[n].left \in NodesOf(h) \cup {None}
        /\ h[n].right \in NodesOf(h) \cup {None}
        /\ n \notin Descendants(h, n)
        /\ Cardinality(ParentLinks(h, n)) = IF n = root THEN 0 ELSE 1
  /\ Subtree(h, root) = NodesOf(h)

NodesKeepValue ==
  /\ Len(bst') >= Len(bst)
  /\ Len(avl') >= Len(avl)
  /\ \A n \in NodesOf(bst) : bst'[n].value = bst[n].value
  /\ \A n \in NodesOf(avl) : avl'[n].value = avl[n].value

C10_ProperRootedTree ==
  /\ [](ProperTree(bst, bstRoot) /\ ProperTree(avl, avlRoot))
  /\ [][NodesKeepValue]_vars

\* The last insert ran a right rotation that moved a non-empty subtree T3
\* from the pivot to the rotated node.
C10_Witness ==
  /\ LastInsertOk
  /\ \E i \in DOMAIN rotLog :
        /\ rotLog[i].kind = "R"
        /\ rotLog[i].before[rotLog[i].before[rotLog[i].z].left].right # None
  /\ ProperTree(avl, avlRoot)

RemoveReplyEffect ==
  cLast'.op = "remove_reply" =>
    LET c == cLast'.target
    IN  /\ Len(comments') = Len(comments)
        /\ comments'[c].is_deleted
        /\ comments'[c].text = DeletedText
        /\ comments'[c].author = ""
        /\ comments'[c].replies = comments[c].replies
        /\ \A d \in CommentIds \ {c} : comments'[d] = comments[d]

AddReplyToDeleted ==
  (cLast'.op = "add_reply" /\ ~cLast'.raised /\ comments[cLast'.target].is_deleted) =>
    /\ comments'[cLast'.target].replies =
          Append(comments[cLast'.target].replies, cLast'.arg)
    /\ comments'[cLast'.target].is_deleted

DeletedStaysDeleted ==
  \A c \in CommentIds : comments[c].is_deleted => comments'[c].is_deleted

C12_RemoveReply ==
  /\ [](\A c \in CommentIds :
          comments[c].is_deleted =>
            comments[c].text = DeletedText /\ comments[c].author = "")
  /\ [][RemoveReplyEffect /\ AddReplyToDeleted /\ DeletedStaysDeleted]_vars

\* A comment with a reply was deleted, kept that reply, is still in its
\* parent's replies, and then got a second reply.
C12_Witness ==
  /\ cLast.op = "add_reply"
  /\ ~cLast.raised
  /\ comments[cLast.target].is_deleted
  /\ comments[cLast.target].text = DeletedText
  /\ Len(comments[cLast.target].replies) = 2
  /\ HasParent(comments, cLast.target)


\* ---- C13 ----------------------------------------------------------------
\* C13: an insert of a value that is already present changes only the count
\* of the node holding it, by exactly 1: both roots, every link, every stored
\* height and every other count stay, no node is created and no rotation runs.
DuplicateInsertFrame ==
  \A v \in Values :
    (inserted[v] > 0 /\ inserted'[v] = inserted[v] + 1) =>
      /\ bstRoot' = bstRoot
      /\ avlRoot' = avlRoot
      /\ rotLog' = <<>>
      /\ \E n \in NodesOf(bst) :
           bst[n].value = v /\ bst' = [bst EXCEPT ![n].count = bst[n].count + 1]
      /\ \E n \in NodesOf(avl) :
           avl[n].value = v /\ avl' = [avl EXCEPT ![n].count = avl[n].count + 1]

C13_DuplicateInsertFrame == [][DuplicateInsertFrame]_vars

\* Every node of both trees has a count of at least 2 in trees of at least
\* three nodes: the insert that just returned was of a value already present,
\* below an ancestor.
C13_Witness ==
  /\ LastInsertOk
  /\ Len(avl) >= 3
  /\ Len(bst) >= 3
  /\ \A n \in NodesOf(avl) : avl[n].count >= 2
  /\ \A n \in NodesOf(bst) : bst[n].count >= 2


\* ---- C14 ----------------------------------------------------------------
\* C14: every rotation of an AVL insert only relinks: for a left rotation at
\* z with pivot y = z.right, y is returned as the subtree root, z is y.left
\* and y's former left subtree is z.right (mirrored for a right rotation);
\* all other links stay, no node is created, no value or count changes, and
\* the in-order list of (value, count) pairs of the subtree is the same.
RotationIsRelinking(e) ==
  LET b == e.before
      a == e.after
      z == e.z
      y == IF e.kind = "L" THEN b[z].right ELSE b[z].left
  IN  /\ y # None
      /\ e.ret = y
      /\ Len(a) = Len(b)
      /\ \A n \in NodesOf(b) : a[n].value = b[n].value /\ a[n].count = b[n].count
      /\ \A n \in NodesOf(b) \ {y, z} : a[n] = b[n]
      /\ e.kind = "L" =>
           /\ a[y].left = z
           /\ a[z].right = b[y].left
           /\ a[y].right = b[y].right
           /\ a[z].left = b[z].left
      /\ e.kind = "R" =>
           /\ a[y].right = z
           /\ a[z].left = b[y].right
           /\ a[y].left = b[y].left
           /\ a[z].right = b[z].right
      /\ InOrder(a, y) = InOrder(b, z)

C14_RotationIsRelinking ==
  \A i \in DOMAIN rotLog : RotationIsRelinking(rotLog[i])

\* The last insert ran a double rotation whose inner left rotation moved a
\* non-empty subtree T2 from the pivot to the rotated node.
C14_Witness ==
  /\ LastInsertOk
  /\ Len(rotLog) = 2
  /\ rotLog[1].kind = "L"
  /\ rotLog[2].kind = "R"
  /\ rotLog[1].before[rotLog[1].before[rotLog[1].z].right].left # None
  /\ RotationIsRelinking(rotLog[1])


\* ---- C15 ----------------------------------------------------------------
\* C15: on any binary tree of AVLNodes, whatever its shape and whatever its
\* stored height fields hold, verify_avl_property() returns true exactly when
\* at every node the true heights of the two subtrees differ by at most 1.
C15_VerifierSoundComplete ==
  /\ AVL_verify_avl_property(avl, avlRoot).result
       <=> \A n \in NodesOf(avl) : BalancedAt(avl, n)
  /\ ~AVL_verify_avl_property(avl, avlRoot).raised
  /\ lastCall.op = "verify_avl_property" =>
       (lastCall.result <=> \A n \in NodesOf(avl) : BalancedAt(avl, n))

\* The verifier returned false on a tree whose root and right branch are
\* balanced and whose only imbalance lies inside the left branch, with stored
\* heights (all 1) that do not show it.
C15_Witness ==
  /\ lastCall.op = "verify_avl_property"
  /\ lastCall.result = FALSE
  /\ avlRoot # None
  /\ BalancedAt(avl, avlRoot)
  /\ \A n \in Subtree(avl, avl[avlRoot].right) : BalancedAt(avl, n)
  /\ \E n \in Subtree(avl, avl[avlRoot].left) : ~BalancedAt(avl, n)
  /\ \A n \in NodesOf(avl) : avl[n].height = 1


\* ---- C16 ----------------------------------------------------------------
\* C16: an AVL tree of height h holding n distinct values has n >= N(h), with
\* N(0) = 0, N(1) = 1, N(h) = 1 + N(h-1) + N(h-2); and after inserting values
\* in strictly increasing order its height is floor(log2(n)) + 1.
RECURSIVE MinNodes(_)
MinNodes(h) == IF h <= 0 THEN 0 ELSE IF h = 1 THEN 1 ELSE 1 + MinNodes(h - 1) + MinNodes(h - 2)

RECURSIVE FloorLog2(_)
FloorLog2(n) == IF n <= 1 THEN 0 ELSE 1 + FloorLog2(n \div 2)

InsertedIncreasing ==
  \A i, j \in NodesOf(avl) : i < j => avl[i].value < avl[j].value

C16_LogarithmicHeight ==
  /\ Cardinality(InsertedValues) >= MinNodes(TrueHeight(avl, avlRoot))
  /\ Len(avl) >= MinNodes(AVL__height(avl, avlRoot))
  /\ (Len(avl) > 0 /\ InsertedIncreasing) =>
       TrueHeight(avl, avlRoot) = FloorLog2(Len(avl)) + 1

\* 1, 2, 3, 4, 5, 6 were inserted in this order: height 3, where the BST has
\* height 6.
C16_Witness ==
  /\ LastInsertOk
  /\ Len(avl) = 6
  /\ \A i \in NodesOf(avl) : avl[i].value = i /\ avl[i].count = 1
  /\ TrueHeight(avl, avlRoot) = 3
  /\ TrueHeight(bst, bstRoot) = 6


\* ---- C17 ----------------------------------------------------------------
\* C17: BST.insert never restructures: an insert of a new value appends one
\* leaf, sets exactly one link that was None to it (or the root of an empty
\* tree) and leaves the root and all other links as they were; so values
\* inserted in strictly increasing order form a right-only chain of depth n.
BstInsertAttachesLeaf ==
  \A v \in Values :
    inserted'[v] = inserted[v] + 1 =>
      /\ bstRoot # None => bstRoot' = bstRoot
      /\ inserted[v] = 0 =>
           LET new == Len(bst) + 1
               leaf == [value |-> v, left |-> None, right |-> None, count |-> 1]
           IN  /\ bstRoot = None => (bstRoot' = new /\ bst' = <<leaf>>)
               /\ bstRoot # None =>
                    \E p \in NodesOf(bst), side \in {"left", "right"} :
                      /\ bst[p][side] = None
                      /\ bst' = Append([bst EXCEPT ![p][side] = new], leaf)

BstIncreasingIsChain ==
  (\A i, j \in NodesOf(bst) : i < j => bst[i].value < bst[j].value) =>
    /\ \A i \in NodesOf(bst) :
         /\ bst[i].left = None
         /\ bst[i].right = IF i < Len(bst) THEN i + 1 ELSE None
    /\ TrueHeight(bst, bstRoot) = Len(bst)

C17_BstNeverRestructures ==
  /\ []BstIncreasingIsChain
  /\ [][BstInsertAttachesLeaf]_vars

\* Six increasing values form a chain of depth 6 through right links only,
\* rooted at the first node.
C17_Witness ==
  /\ LastInsertOk
  /\ Len(bst) = 6
  /\ bstRoot = 1
  /\ \A i \in 1..5 : bst[i].right = i + 1 /\ bst[i].left = None
  /\ bst[6].right = None
  /\ TrueHeight(bst, bstRoot) = 6


\* ---- C18 ----------------------------------------------------------------
\* C18: at every ancestor an AVL insert unwinds through, the balance computed
\* at line 87 is within -2..2; when it is 2 or -2 the heavy-side child exists,
\* its value differs from the inserted value, exactly one of the four guards
\* of lines 89-96 is true and its rotations run (one for a single, two for a
\* double case); when it is within -1..1 no guard is true and nothing rotates.
GuardsTrue(e) ==
  {g \in 1..4 :
     \/ g = 1 /\ e.balance > 1 /\ e.value < e.leftValue
     \/ g = 2 /\ e.balance < -1 /\ e.value > e.rightValue
     \/ g = 3 /\ e.balance > 1 /\ e.value > e.leftValue
     \/ g = 4 /\ e.balance < -1 /\ e.value < e.rightValue}

VisitOk(e) ==
  /\ e.balance \in -2..2
  /\ e.balance > 1 => (e.left # None /\ e.value # e.leftValue)
  /\ e.balance < -1 => (e.right # None /\ e.value # e.rightValue)
  /\ Abs(e.balance) > 1 =>
       /\ Cardinality(GuardsTrue(e)) = 1
       /\ e.rotations = IF GuardsTrue(e) \subseteq {1, 2} THEN 1 ELSE 2
  /\ Abs(e.balance) <= 1 => (GuardsTrue(e) = {} /\ e.rotations = 0)

RotationCasesExhaustive ==
  \A v \in Values :
    inserted'[v] = inserted[v] + 1 =>
      LET a == AVL__insert(avl, avlRoot, v)
      IN  /\ avl' = a.h
          /\ rotLog' = a.rots
          /\ \A i \in DOMAIN a.visits : VisitOk(a.visits[i])
          /\ \A n \in NodesOf(avl') : Abs(AVL__get_balance(avl', n)) <= 1

C18_RotationCasesExhaustive == [][RotationCasesExhaustive]_vars

\* The last insert found a balance of -2 with a value below the right
\* child's and ran the right-left double rotation.
C18_Witness ==
  /\ LastInsertOk
  /\ Len(rotLog) = 2
  /\ rotLog[1].case = "RL"
  /\ rotLog[2].case = "RL"
  /\ rotLog[1].kind = "R"
  /\ AVL__get_balance(rotLog[2].before, rotLog[2].z) = -2


\* ---- C19 ----------------------------------------------------------------
\* C19: one AVL insert rebalances at most once: at most one ancestor on the
\* path is found with a balance outside -1..1, only there rotations run (one
\* single or one double rotation), the subtree returned there has the stored
\* height the ancestor had before the insert, and every ancestor above it
\* neither rotates nor changes its stored height.
OneRebalancingStep(a) ==
  LET vis == a.visits
      unbalanced == {i \in DOMAIN vis : Abs(vis[i].balance) > 1}
      rotating == {i \in DOMAIN vis : vis[i].rotations > 0}
  IN  /\ Cardinality(unbalanced) <= 1
      /\ rotating = unbalanced
      /\ Len(a.rots) <= 2
      /\ Len(a.rots) = 2 =>
           /\ a.rots[1].case = a.rots[2].case
           /\ a.rots[1].case \in {"LR", "RL"}
      /\ Len(a.rots) = 1 => a.rots[1].case \in {"LL", "RR"}
      /\ \A i \in DOMAIN vis : vis[i].heightBefore = avl[vis[i].node].height
      /\ \A i \in rotating :
           /\ vis[i].heightAfter = vis[i].heightBefore
           /\ TrueHeight(a.h, vis[i].ret) = TrueHeight(avl, vis[i].node)
           /\ \A j \in DOMAIN vis :
                j > i =>
                  /\ vis[j].rotations = 0
                  /\ vis[j].ret = vis[j].node
                  /\ a.h[vis[j].node].height = avl[vis[j].node].height

AtMostOneRebalancing ==
  \A v \in Values :
    inserted'[v] = inserted[v] + 1 =>
      LET a == AVL__insert(avl, avlRoot, v)
      IN  avl' = a.h /\ rotLog' = a.rots /\ OneRebalancingStep(a)

C19_AtMostOneRebalancing == [][AtMostOneRebalancing]_vars

\* The last insert ran one single rotation at a node below the root; the
\* subtree it returned is one lower than the rotated node was when line 87
\* found it unbalanced.
C19_Witness ==
  /\ LastInsertOk
  /\ Len(rotLog) = 1
  /\ rotLog[1].ret # avlRoot
  /\ avl[rotLog[1].ret].height = rotLog[1].before[rotLog[1].z].height - 1


\* ---- C20 ----------------------------------------------------------------
\* C20: get_min, get_max, get_sum and verify_avl_property are read-only: a
\* query step leaves both roots and every field of every node unchanged, so
\* every query and every later insert on the queried tree gives the same
\* outcome after it as before it, and the result a query returned is the
\* result of calling it again.
QueryOps == {"get_min", "get_max", "get_sum", "verify_avl_property"}

CurrentOutcome(op, tree) ==
  IF tree = "bst"
    THEN IF op = "get_min" THEN BST_get_min(bst, bstRoot)
         ELSE IF op = "get_max" THEN BST_get_max(bst, bstRoot)
         ELSE BST_get_sum(bst, bstRoot)
    ELSE IF op = "get_min" THEN AVL_get_min(avl, avlRoot)
         ELSE IF op = "get_max" THEN AVL_get_max(avl, avlRoot)
         ELSE IF op = "get_sum" THEN AVL_get_sum(avl, avlRoot)
         ELSE AVL_verify_avl_property(avl, avlRoot)

ResultIsRepeatable ==
  lastCall.op \in QueryOps =>
    /\ lastCall.raised = CurrentOutcome(lastCall.op, lastCall.tree).raised
    /\ lastCall.result = CurrentOutcome(lastCall.op, lastCall.tree).result

QueryReadOnly ==
  lastCall'.op \in QueryOps =>
    /\ bstRoot' = bstRoot
    /\ avlRoot' = avlRoot
    /\ bst' = bst
    /\ avl' = avl
    /\ lastCall'.tree = "bst" =>
         /\ BST_get_min(bst', bstRoot') = BST_get_min(bst, bstRoot)
         /\ BST_get_max(bst', bstRoot') = BST_get_max(bst, bstRoot)
         /\ BST_get_sum(bst', bstRoot') = BST_get_sum(bst, bstRoot)
         /\ \A v \in Values :
              BST__insert(bst', bstRoot', v) = BST__insert(bst, bstRoot, v)
    /\ lastCall'.tree = "avl" =>
         /\ AVL_get_min(avl', avlRoot') = AVL_get_min(avl, avlRoot)
         /\ AVL_get_max(avl', avlRoot') = AVL_get_max(avl, avlRoot)
         /\ AVL_get_sum(avl', avlRoot') = AVL_get_sum(avl, avlRoot)
         /\ AVL_verify_avl_property(avl', avlRoot')
              = AVL_verify_avl_property(avl, avlRoot)
         /\ \A v \in Values :
              AVL__insert(avl', avlRoot', v) = AVL__insert(avl, avlRoot, v)

C20_QueriesReadOnly ==
  /\ []ResultIsRepeatable
  /\ [][QueryReadOnly]_vars

\* get_max was called on an AVL tree of at least three nodes whose maximum is
\* not at the root, and the tree still verifies and still has its root.
C20_Witness ==
  /\ lastCall.op = "get_max"
  /\ lastCall.tree = "avl"
  /\ Len(avl) >= 3
  /\ avl[avlRoot].right # None
  /\ lastCall.result # avl[avlRoot].value
  /\ Subtree(avl, avlRoot) = NodesOf(avl)

====
